---- MODULE Spec2Model ----
(***************************************************************************)
(* Fixed-window rate limiter (backend/rate_limiter) on top of the          *)
(* thread-safe cache manager (backend/cache/cache_manager.py).             *)
(*                                                                         *)
(* Time is counted in ticks; a tick is 1/TicksPerMs of a millisecond, so   *)
(* that the truncation int(remaining * 1000) of depends.py:70 is visible.  *)
(* Strings that the code joins with ":" are sequences of ":"-free fields;  *)
(* joining is concatenation of the sequences.                              *)
(***************************************************************************)
EXTENDS Integers, Sequences, FiniteSets, TLC

\* ---------------------------------------------------------------- bounds
TicksPerMs == 2         \* clock resolution of the model
MaxSec == 1             \* the clock runs from 0 to MaxSec seconds ...
MaxFine == 1            \* ... and is read at most MaxFine ticks past a whole second
MaxChecks == 2          \* limiter calls made in one behaviour
MaxTimes == 1           \* largest `times` given to a RateLimiter
SmallMaxSize == 2       \* capacity of the small stores
SmallTtl == 1           \* entry lifetime (seconds) of the small TTL store
MaxThreads == 4         \* threads calling the CacheManager's methods directly
MaxValue == 1           \* numbers kept in the store stay within 0..MaxValue
MaxRacers == 2          \* threads calling increment and decrement in parallel

\* ------------------------------------------------------ program constants
MsPerSec == 1000        \* depends.py:40, depends.py:70
LifespanMaxSize == 2000 \* api.py:31
LifespanTtl == 3600     \* api.py:31

TicksPerSec == TicksPerMs * MsPerSec

\* Python's None: as an optional name or function, and as cache.get's miss
None == "None"
Absent == <<>>

\* mutant: the lower bound is not applied
Unclamped(a, b) == b

Max(a, b) == IF a >= b THEN a ELSE b

\* Python's int(): truncation toward zero of n / d (d > 0)
Trunc(n, d) == IF n >= 0 THEN n \div d ELSE -((-n) \div d)

\* mutant: the remainder is dropped
Floor(n, d) == n \div d

\* Python's math.ceil of n / d (d > 0)
Ceil(n, d) == -((-n) \div d)

\* the instants at which the clocks are read
TimePoints == { s * TicksPerSec + f : s \in 0..MaxSec, f \in 0..MaxFine }
WholeSeconds == { s * TicksPerSec : s \in 0..MaxSec }

\* ------------------------------------------------- cachetools containers
\* A container is the sequence of its entries [key, value, expires], least
\* recently used first.  `expires` is meaningful for TTLCache only.

IndexOf(entries, k) ==
    IF \E i \in 1..Len(entries) : entries[i].key = k
    THEN CHOOSE i \in 1..Len(entries) : entries[i].key = k
    ELSE 0

RemoveAt(entries, i) ==
    [j \in 1..(Len(entries) - 1) |-> IF j < i THEN entries[j] ELSE entries[j + 1]]

MoveToEnd(entries, i) == Append(RemoveAt(entries, i), entries[i])

\* TTLCache.expire(time): drop every entry with not (time < expires)
Expire(m, t) ==
    IF m.cache_type = "TTLCache"
    THEN [m EXCEPT !.cache = SelectSeq(m.cache, LAMBDA e : t < e.expires)]
    ELSE m

\* mutant: entries never expire
ExpireNever(m, k, t) == IndexOf(m.cache, k) # 0

\* key in cache  (TTLCache.__contains__ / Cache.__contains__); no reordering
Contains(m, k, t) ==
    LET i == IndexOf(m.cache, k) IN
    /\ i # 0
    /\ m.cache_type = "TTLCache" => t < m.cache[i].expires

\* cache.get(key): the value, or None (Absent); a hit makes the key most recently used
CacheGetValue(m, k, t) ==
    IF Contains(m, k, t) THEN m.cache[IndexOf(m.cache, k)].value ELSE Absent

\* mutant: a hit does not touch the order of use
NoBookkeeping(m, k, t) == m

CacheGetBookkeeping(m, k, t) ==
    IF Contains(m, k, t)
    THEN [m EXCEPT !.cache = MoveToEnd(m.cache, IndexOf(m.cache, k))]
    ELSE m

\* mutant: nothing is dropped to make room
PopNothing(m) == m

\* Cache.popitem under both policies: drop the least recently used entry
PopItem(m) == [m EXCEPT !.cache = Tail(m.cache)]

\* cache[key] = value raises ValueError("value too large") when maxsize < 1
SetItemFails(m) == m.max_size < 1

\* cache[key] = value
SetItem(m, k, v, t) ==
    LET m1 == Expire(m, t)
        i  == IndexOf(m1.cache, k)
        e  == [key |-> k, value |-> v,
               expires |-> IF m.cache_type = "TTLCache"
                           THEN t + m.ttl * TicksPerSec ELSE 0]
    IN  IF i # 0
        THEN [m1 EXCEPT !.cache = Append(RemoveAt(m1.cache, i), e)]
        ELSE LET m2 == IF Len(m1.cache) + 1 > m1.max_size THEN PopItem(m1) ELSE m1
             IN  [m2 EXCEPT !.cache = Append(m2.cache, e)]

\* ------------------------------------------------------------ the callers
\* Text of a small index, as an f-string renders it
Str(i) == <<"0", "1", "2", "3", "4", "5", "6", "7", "8", "9">>[i + 1]

\* the limiter objects of the application, made when the routes are declared
Guards == {"g1", "g2", "g3", "g4", "ws1"}
IsWebSocket(g) == g = "ws1"

\* request.app.routes: the route table the HTTP check scans
Routes ==
    << [path |-> "/openapi.json", methods |-> {"GET", "HEAD"}, dependencies |-> <<>>],
       [path |-> "/api/v1/", methods |-> {"GET"}, dependencies |-> <<"g1", "g2">>],
       [path |-> "/api/v1/items/{item_id}", methods |-> {"GET"},
        dependencies |-> <<"g3", "g4">>] >>

Hosts == {"10.0.0.1", "10.0.0.2"}
Contexts == {"", "chat"}

\* what a caller hands to a limiter: the request (or websocket) and, for a
\* websocket, the context_key
Calls ==
    { [g |-> g, host |-> h, path |-> "/api/v1/", method |-> "GET",
       forwarded |-> <<>>, ctx |-> ""] : g \in {"g1", "g2"}, h \in Hosts }
    \cup
    { [g |-> "ws1", host |-> h, path |-> "/ws", method |-> "GET",
       forwarded |-> <<>>, ctx |-> c] : h \in Hosts, c \in Contexts }

\* requests dispatched to the route with a path parameter: scope["path"] is
\* the requested path, the route's path is its template
ItemCalls ==
    { [g |-> g, host |-> "10.0.0.1", path |-> "/api/v1/items/7", method |-> "GET",
       forwarded |-> <<>>, ctx |-> ""] : g \in {"g3", "g4"} }

\* RateLimiter.__init__; `given` is history: the duration arguments
RateLimiterInit(times, milliseconds, seconds, minutes, hours, identifier, callback) ==
    [given       |-> <<milliseconds, seconds, minutes, hours>>,
     times       |-> times,
     ttl_seconds |-> Max(1, (milliseconds \div MsPerSec) + seconds
                            + 60 * minutes + 3600 * hours),
     identifier  |-> identifier,
     callback    |-> callback]


\* a string with ":" in it is the same characters as its parts joined by ":":
\* the strings of the model as their parts between the colons
Split(x) ==
    IF x = "/ws/a:b" THEN <<"/ws/a", "b">>
    ELSE IF x = "b:c" THEN <<"b", "c">>
    ELSE <<x>>

\* default_identifier: first X-Forwarded-For item, else the client host, then
\* ":" and the path
default_identifier(req) ==
    LET ip == IF req.forwarded # <<>> THEN req.forwarded[1] ELSE req.host
    IN  Split(ip) \o Split(req.path)

\* await identifier(request) for the identifier functions of the model
Identify(fn, req) ==
    IF fn = "default_identifier" THEN default_identifier(req)
    ELSE IF fn = "by_user" THEN <<"user", req.host>>
    ELSE <<"own", req.host>>

\* f"{x}" of an Optional[str]
Fmt(x) == IF x = None THEN "None" ELSE x

\* the route scan of RateLimiter.__call__: <<route_index, dep_index>>
RECURSIVE ScanRoutes(_, _, _, _)
ScanRoutes(g, req, i, acc) ==
    IF i > Len(Routes) THEN acc
    ELSE LET route == Routes[i]
             hit   == route.path = req.path /\ req.method \in route.methods
             js    == { j \in 1..Len(route.dependencies) : route.dependencies[j] = g }
             dep   == IF js = {} THEN acc[2]
                      ELSE (CHOOSE j \in js : \A k \in js : j <= k) - 1
         IN  ScanRoutes(g, req, i + 1, IF hit THEN <<i - 1, dep>> ELSE acc)

\* the composite key of RateLimiter.__call__
HttpKey(prefix, rate_key, route_index, dep_index) ==
    <<Fmt(prefix)>> \o rate_key \o <<Str(route_index), Str(dep_index)>>

\* mutant: the context_key is left out of the key
WsKeyNoContext(prefix, rate_key, context_key) == <<Fmt(prefix), "ws">> \o rate_key

\* the composite key of WebSocketRateLimiter.__call__
WsKey(prefix, rate_key, context_key) ==
    <<Fmt(prefix), "ws">> \o rate_key \o Split(context_key)

\* mutant: the functions are fixed when the limiter is constructed, before
\* FastAPILimiter.init has run
ResolveAtConstruction(own, configured) == own

\* self.identifier or FastAPILimiter.identifier (likewise for the callback)
Resolve(own, configured) == IF own # None THEN own ELSE configured

\* ---------------------------------------------------------------- state
VARIABLES
    now,             \* the clock: time.time() and the cache's timer, in ticks
    managers,        \* every CacheManager object made so far
    cache_manager,   \* _cache_manager: index into managers, 0 for None
    FastAPILimiter,  \* the class attributes prefix, identifier, http_callback, ws_callback
    lifecycle,       \* history: "new", "active" after init(), "closed" after a close()
                     \* that follows an init()
    limiter,         \* the RateLimiter objects: guard -> its fields
    check,           \* the limiter calls so far, in order of their start; `phase`
                     \* is history: the lifecycle at the call's start, "active"
                     \* once init() has run during the call
    ops,             \* per thread: the CacheManager method it runs or ran last
    lock,            \* CacheManager.lock: the thread inside `with self.lock`, 0 if free
    db,              \* Auth.db: the refresh-token rows, row i has token_id i
    auth             \* the calls of Auth.verify_refresh_token and
                     \* Auth.rotate_refresh_token so far

vars ==
    <<now, managers, cache_manager, FastAPILimiter, lifecycle, limiter, check, ops, lock,
      db, auth>>

\* the threads that call the CacheManager's methods directly
Threads == 1..MaxThreads

\* a thread that has called nothing yet
Idle ==
    [op |-> "", key |-> "", arg |-> 0, pc |-> "idle", seen |-> 0, ret |-> 0,
     none |-> FALSE, err |-> "", size |-> 0, held |-> FALSE]

\* the cache configurations given to init_cache_manager
CacheConfigs ==
    { [cache_type |-> "TTLCache", max_size |-> LifespanMaxSize, ttl |-> LifespanTtl],
      [cache_type |-> "TTLCache", max_size |-> SmallMaxSize, ttl |-> SmallTtl],
      [cache_type |-> "LRUCache", max_size |-> SmallMaxSize, ttl |-> LifespanTtl] }

\* the arguments given to FastAPILimiter.init
LimiterConfigs ==
    { [prefix |-> "fastapi-limiter", identifier |-> "default_identifier",
       http_callback |-> "http_default_callback", ws_callback |-> "ws_default_callback"],
      [prefix |-> "fastapi-limiter", identifier |-> "by_user",
       http_callback |-> "http_custom_callback", ws_callback |-> "ws_custom_callback"] }

Unconfigured ==
    [prefix |-> None, identifier |-> None, http_callback |-> None, ws_callback |-> None]

\* the limiters as the routes declare them: g1 and ws1 take the configured
\* functions, g2 brings its own
Limiters(times, seconds) ==
    [g \in Guards |->
        IF g = "g2"
        THEN RateLimiterInit(times, 0, seconds, 0, 0, "own_identifier", "own_callback")
        ELSE RateLimiterInit(times, 0, seconds, 0, 0, None, None)]

\* nothing has run yet: no cache manager, FastAPILimiter as the class declares it
Init ==
    /\ now = 0
    /\ managers = <<>>
    /\ cache_manager = 0
    /\ FastAPILimiter = Unconfigured
    /\ lifecycle = "new"
    /\ limiter = Limiters(1, 1)
    /\ check = <<>>
    /\ ops = [t \in Threads |-> Idle]
    /\ lock = 0
    /\ db = <<>>
    /\ auth = <<>>

\* ------------------------------------------------------------- operations
\* CacheManager.__init__ and init_cache_manager
CacheManagerInit(cfg) ==
    [cache_type |-> cfg.cache_type, max_size |-> cfg.max_size, ttl |-> cfg.ttl,
     cache |-> <<>>, open |-> TRUE]

\* lifespan calls it once, while there is no manager
init_cache_manager(cfg) ==
    /\ cache_manager = 0
    /\ managers' = Append(managers, CacheManagerInit(cfg))
    /\ cache_manager' = Len(managers) + 1
    /\ UNCHANGED <<now, FastAPILimiter, lifecycle, limiter, check, ops, lock, db, auth>>

\* FastAPILimiter.init
LimiterInit(cfg) ==
    /\ FastAPILimiter' = cfg
    /\ lifecycle' = "active"
    /\ check' = [p \in 1..Len(check) |->
                    IF check[p].pc = "done" THEN check[p]
                    ELSE [check[p] EXCEPT !.phase = "active"]]
    /\ UNCHANGED <<now, managers, cache_manager, limiter, ops, lock, db, auth>>

\* FastAPILimiter.close: logs, and changes no attribute
LimiterClosed(cfg) == cfg

LimiterClose ==
    /\ FastAPILimiter' = LimiterClosed(FastAPILimiter)
    /\ lifecycle' = IF lifecycle = "new" THEN "new" ELSE "closed"
    /\ UNCHANGED <<now, managers, cache_manager, limiter, check, ops, lock, db, auth>>

\* the clock moves on to a later instant of `points`
Tick(points) ==
    /\ \E t \in points : t > now /\ now' = t
    /\ UNCHANGED <<managers, cache_manager, FastAPILimiter, lifecycle, limiter, check, ops, lock, db, auth>>

\* ------------------------------------------------------- the limiter call
\* mutant: an error inside the call is swallowed and the caller goes on
Swallowed(r, kind) == [r EXCEPT !.pc = "done", !.result = "ALLOW"]

\* an exception leaves the call: nothing is returned and no callback runs
Raised(r, kind) == [r EXCEPT !.pc = "done", !.result = "ERROR", !.error = kind]

\* mutant: the count is compared before the expiry
DecideCountFirst(current, times, t) ==
    IF current = Absent THEN "new"
    ELSE IF current[1] >= times THEN "deny"
    ELSE IF t > current[2] THEN "reset"
    ELSE "incr"

\* mutant: a record at its limit still counts up (> for >=)
DecideOverLimit(current, times, t) ==
    IF current = Absent THEN "new"
    ELSE IF t > current[2] THEN "reset"
    ELSE IF current[1] > times THEN "deny"
    ELSE "incr"

\* lines 52-67 of _check: which way the check goes on what cache.get returned
Decide(current, times, t) ==
    IF current = Absent THEN "new"
    ELSE IF t > current[2] THEN "reset"
    ELSE IF current[1] >= times THEN "deny"
    ELSE "incr"

\* `count, expiry = current` fails on a value that is not a pair
Malformed(current) == current # Absent /\ Len(current) # 2

\* mutant: the request that opens a window is not counted
Uncounted(t, ttl_seconds) == <<0, t + ttl_seconds * TicksPerSec>>

\* (1, time.time() + self.ttl_seconds)
NewRecord(t, ttl_seconds) == <<1, t + ttl_seconds * TicksPerSec>>

\* mutant: the window is pushed on by a counted request
Extended(current) == <<current[1] + 1, current[2] + TicksPerSec>>

\* (count + 1, expiry)
Incremented(current) == <<current[1] + 1, current[2]>>

\* max(0, int((expiry - time.time()) * 1000))
RemainingMs(expiry, t) == Max(0, Trunc(expiry - t, TicksPerMs))

\* `if pexpire != 0` of __call__
Verdict(pexpire) == IF pexpire # 0 THEN "DENY" ELSE "ALLOW"

Blank(c) ==
    [call |-> c, phase |-> lifecycle, pc |-> "check", key |-> <<>>,
     identifier |-> None, callback |-> None,
     cache |-> 0, current |-> Absent, branch |-> "", at |-> now,
     result |-> "", pexpire |-> 0, error |-> "", status |-> 0, retry_after |-> 0,
     stored |-> Absent, decided |-> 0]

\* __call__ up to the call of _check (RateLimiter: lines 84-106,
\* WebSocketRateLimiter: lines 118-128)
Entered(c) ==
    LET self       == limiter[c.g]
        identifier == Resolve(self.identifier, FastAPILimiter.identifier)
        scan       == ScanRoutes(c.g, c, 1, <<0, 0>>)
        r          == Blank(c)
    IN  IF cache_manager = 0 THEN Raised(r, "RuntimeError")
        ELSE IF identifier = None THEN Raised(r, "TypeError")
        ELSE IF IsWebSocket(c.g)
        THEN [r EXCEPT !.identifier = identifier,
                       !.key = WsKey(FastAPILimiter.prefix, Identify(identifier, c), c.ctx)]
        ELSE [r EXCEPT !.identifier = identifier,
                       !.callback = Resolve(self.callback, FastAPILimiter.http_callback),
                       !.key = HttpKey(FastAPILimiter.prefix, Identify(identifier, c),
                                       scan[1], scan[2])]

\* a caller enters a limiter; `alone` when the caller waits for earlier calls
Call(c, bound, alone) ==
    /\ Len(check) < bound
    /\ alone => \A p \in 1..Len(check) : check[p].pc = "done"
    /\ check' = Append(check, Entered(c))
    /\ UNCHANGED <<now, managers, cache_manager, FastAPILimiter, lifecycle, limiter, ops, lock, db, auth>>

\* _check, lines 47-67: get_cache(), cache.get(key) under the lock, and the
\* comparisons that pick the branch
Read(p) ==
    /\ check[p].pc = "check"
    /\ lock = 0
    /\ LET r == check[p]
           m == managers[cache_manager]
       IN  IF cache_manager = 0
           THEN /\ check' = [check EXCEPT ![p] = Raised(r, "RuntimeError")]
                /\ UNCHANGED managers
           ELSE IF ~m.open
           THEN /\ check' = [check EXCEPT ![p] = Raised(r, "Exception")]
                /\ UNCHANGED managers
           ELSE LET current == CacheGetValue(m, r.key, now) IN
                /\ managers' = [managers EXCEPT
                                    ![cache_manager] = CacheGetBookkeeping(m, r.key, now)]
                /\ check' = [check EXCEPT ![p] =
                       IF Malformed(current)
                       THEN Raised([r EXCEPT !.cache = cache_manager, !.at = now], "Exception")
                       ELSE [r EXCEPT !.pc = "act", !.cache = cache_manager,
                                      !.current = current, !.at = now,
                                      !.branch = Decide(current, limiter[r.call.g].times, now)]]
    /\ UNCHANGED <<now, cache_manager, FastAPILimiter, lifecycle, limiter, ops, lock, db, auth>>

\* mutant: the count is stored on the deny branch too
StoredOnDeny(r, self, t) ==
    IF r.branch \in {"new", "reset"} THEN NewRecord(t, self.ttl_seconds)
    ELSE Incremented(r.current)

\* what _check stores on its branch (lines 54, 63, 75), Absent on the deny branch
Stored(r, self, t) ==
    IF r.branch \in {"new", "reset"} THEN NewRecord(t, self.ttl_seconds)
    ELSE IF r.branch = "incr" THEN Incremented(r.current)
    ELSE Absent

\* what _check returns (lines 56, 65, 72, 77)
Returned(r, t) == IF r.branch = "deny" THEN RemainingMs(r.current[2], t) ELSE 0

\* mutant: the header carries the whole seconds that have fully remained
RoundedDown(pexpire) == [status |-> 429, retry_after |-> pexpire \div MsPerSec]

\* http_default_callback and ws_default_callback: HTTPException(429) with the
\* header Retry-After: str(ceil(pexpire / 1000))
DefaultCallback(pexpire) == [status |-> 429, retry_after |-> Ceil(pexpire, MsPerSec)]

\* await callback(..., pexpire); what a callback of the application's own
\* answers is not the limiter's business
RunCallback(callback, pexpire) ==
    IF callback \in {"http_default_callback", "ws_default_callback"}
    THEN DefaultCallback(pexpire)
    ELSE [status |-> 0, retry_after |-> 0]

\* the end of __call__ (RateLimiter: lines 102, 109-113, WebSocketRateLimiter:
\* lines 130-136): the callback runs when pexpire is not 0
Answered(r, self, pexpire) ==
    LET callback == IF IsWebSocket(r.call.g)
                    THEN Resolve(self.callback, FastAPILimiter.ws_callback)
                    ELSE r.callback
    IN  IF Verdict(pexpire) = "ALLOW"
        THEN [r EXCEPT !.pc = "done", !.result = "ALLOW", !.callback = callback]
        ELSE IF callback = None
        THEN Raised([r EXCEPT !.pexpire = pexpire], "TypeError")
        ELSE [r EXCEPT !.pc = "done", !.result = "DENY", !.callback = callback,
                       !.pexpire = pexpire,
                       !.status = RunCallback(callback, pexpire).status,
                       !.retry_after = RunCallback(callback, pexpire).retry_after]

\* _check, lines 54-77, and the rest of __call__: cache.set(key, ...) under the
\* lock, or the remaining time without touching the store, then the callback
Act(p) ==
    /\ check[p].pc = "act"
    /\ lock = 0 \/ check[p].branch = "deny"
    /\ LET r     == check[p]
           self  == limiter[r.call.g]
           m     == managers[r.cache]
           value == Stored(r, self, now)
       IN  IF value # Absent /\ (~m.open \/ SetItemFails(m))
           THEN /\ check' = [check EXCEPT ![p] = Raised(r, "Exception")]
                /\ UNCHANGED managers
           ELSE /\ managers' = IF value = Absent THEN managers
                               ELSE [managers EXCEPT ![r.cache] = SetItem(m, r.key, value, now)]
                /\ check' = [check EXCEPT ![p] =
                                [Answered(r, self, Returned(r, now))
                                    EXCEPT !.stored = value, !.decided = now]]
    /\ UNCHANGED <<now, cache_manager, FastAPILimiter, lifecycle, limiter, ops, lock, db, auth>>

\* ------------------------------------------------- CacheManager methods
\* A thread's record `o` holds the method it runs: op, key, arg (the value,
\* default or amount), pc (where it stands inside `with self.lock`), seen (what
\* it read), and what it gave back: ret (True and False are 1 and 0), none
\* (it gave back None), or err.  size and held are history: the number of
\* entries, and whether the key was among them, as the method was entered.
\* A manager whose `open` is FALSE has self.cache = None.

Keys == {"a", "b", "c"}

Methods ==
    {"get", "set", "delete", "clear", "exists", "get_or_set", "increment",
     "decrement", "get_size", "close"}

\* len(cache): the entries that have not expired
Size(m, t) == Len(Expire(m, t).cache)

\* mutant: the oldest entry is removed, whatever the key
DelOldest(m, k) == [m EXCEPT !.cache = Tail(m.cache)]

\* del cache[key], key held by the container
DelItem(m, k) == [m EXCEPT !.cache = RemoveAt(m.cache, IndexOf(m.cache, k))]

\* cache.get(key, 0) where the values are numbers
GetOrZero(m, k, t) == IF Contains(m, k, t) THEN m.cache[IndexOf(m.cache, k)].value ELSE 0

\* mutant: the methods run without the lock
AcquirableAlways(l) == TRUE

\* `with self.lock` can be entered by a thread that does not hold it
Acquirable(l) == l = 0

Invoked(m, op, k, v, t) ==
    [Idle EXCEPT !.op = op, !.key = k, !.arg = v, !.pc = "call",
                 !.size = Size(m, t), !.held = Contains(m, k, t)]
Gave(o, ret) == [o EXCEPT !.pc = "done", !.ret = ret]
Failed(o, kind) == [o EXCEPT !.pc = "done", !.err = kind]
Inside(o, pc) == [o EXCEPT !.pc = pc]

\* CacheManager.close: `if self.cache` is false for None and for a container
\* of length 0, which is left in place
Closed(m, t) ==
    IF m.open /\ Size(m, t) > 0 THEN [m EXCEPT !.cache = <<>>, !.open = FALSE] ELSE m

\* The values of the model are numbers, except under the keys of the limiter
\* calls, which hold tuples (the records, or what Corrupt has put there).
HoldsTuple(m, k, t) ==
    Contains(m, k, t) /\ k \in { check[p].key : p \in 1..Len(check) }

\* mutant: the error is swallowed and 0 is returned
FetchedQuietly(m, o, t) ==
    IF HoldsTuple(m, o.key, t) THEN Gave(o, 0)
    ELSE Inside([o EXCEPT !.seen = GetOrZero(m, o.key, t)], "write")

\* increment and decrement after `current = self.cache.get(key, 0)`:
\* `current + amount` (`current - amount`) raises TypeError for a tuple, and
\* the exception leaves `with self.lock`
Fetched(m, o, t) ==
    IF HoldsTuple(m, o.key, t) THEN Failed(o, "TypeError")
    ELSE Inside([o EXCEPT !.seen = GetOrZero(m, o.key, t)], "write")

\* the method up to its first container operation, or all of it when it has one
First(m, o, t) ==
    LET k == o.key IN
    IF o.op = "close"
    THEN [m |-> Closed(m, t), o |-> Gave(o, 0)]
    ELSE IF ~m.open
    THEN [m |-> m, o |-> Failed(o, IF o.op \in {"get", "increment", "decrement"}
                                   THEN "AttributeError" ELSE "TypeError")]
    ELSE IF o.op = "get"
    THEN [m |-> CacheGetBookkeeping(m, k, t),
          o |-> IF Contains(m, k, t) THEN Gave(o, GetOrZero(m, k, t))
                ELSE Gave([o EXCEPT !.none = TRUE], 0)]
    ELSE IF o.op = "set"
    THEN IF SetItemFails(m) THEN [m |-> Expire(m, t), o |-> Failed(o, "ValueError")]
         ELSE [m |-> SetItem(m, k, o.arg, t), o |-> Gave(o, 0)]
    ELSE IF o.op = "exists"
    THEN [m |-> m, o |-> Gave(o, IF Contains(m, k, t) THEN 1 ELSE 0)]
    ELSE IF o.op = "clear"
    THEN [m |-> [m EXCEPT !.cache = <<>>], o |-> Gave(o, 0)]
    ELSE IF o.op = "get_size"
    THEN [m |-> m, o |-> Gave(o, Size(m, t))]
    ELSE IF o.op = "delete"
    THEN [m |-> m, o |-> IF Contains(m, k, t) THEN Inside(o, "del") ELSE Gave(o, 0)]
    ELSE IF o.op = "get_or_set"
    THEN [m |-> m, o |-> IF Contains(m, k, t) THEN Inside(o, "read") ELSE Inside(o, "store")]
    ELSE [m |-> CacheGetBookkeeping(m, k, t), o |-> Fetched(m, o, t)]

\* the next container operation of a method that is inside `with self.lock`
Then(m, o, t) ==
    LET k == o.key IN
    IF ~m.open THEN [m |-> m, o |-> Failed(o, "TypeError")]
    ELSE IF o.pc = "del"
    THEN IF IndexOf(m.cache, k) = 0 THEN [m |-> m, o |-> Failed(o, "KeyError")]
         ELSE [m |-> DelItem(m, k),
               o |-> IF Contains(m, k, t) THEN Gave(o, 1) ELSE Failed(o, "KeyError")]
    ELSE IF o.pc = "store"
    THEN IF SetItemFails(m) THEN [m |-> Expire(m, t), o |-> Failed(o, "ValueError")]
         ELSE [m |-> SetItem(m, k, o.arg, t), o |-> Inside(o, "read")]
    ELSE IF o.pc = "read"
    THEN IF Contains(m, k, t)
         THEN [m |-> CacheGetBookkeeping(m, k, t), o |-> Gave(o, GetOrZero(m, k, t))]
         ELSE [m |-> m, o |-> Failed(o, "KeyError")]
    ELSE LET new_value == IF o.op = "increment" THEN o.seen + o.arg ELSE o.seen - o.arg
         IN  IF SetItemFails(m) THEN [m |-> Expire(m, t), o |-> Failed(o, "ValueError")]
             ELSE [m |-> SetItem(m, k, new_value, t), o |-> Gave(o, new_value)]

\* a thread calls a method of the manager and enters `with self.lock`;
\* `again` when the thread may call after an earlier call has returned
Begin(t, op, k, v, again) ==
    /\ ops[t].pc = "idle" \/ (again /\ ops[t].pc = "done")
    /\ Acquirable(lock)
    /\ LET n == First(managers[1], Invoked(managers[1], op, k, v, now), now) IN
       /\ managers' = [managers EXCEPT ![1] = n.m]
       /\ ops' = [ops EXCEPT ![t] = n.o]
       /\ lock' = IF n.o.pc = "done" THEN lock ELSE t
    /\ UNCHANGED <<now, cache_manager, FastAPILimiter, lifecycle, limiter, check, db, auth>>

\* mutant: the lock stays with the thread whose method has returned
Kept(l, t, o) == l

\* the end of `with self.lock`: the lock is released as the method returns or
\* raises
Released(l, t, o) == IF o.pc = "done" /\ l = t THEN 0 ELSE l

\* a thread inside `with self.lock` goes on; it leaves the lock as it returns
Step(t) ==
    /\ ops[t].pc \in {"del", "store", "read", "write"}
    /\ LET n == Then(managers[1], ops[t], now) IN
       /\ managers' = [managers EXCEPT ![1] = n.m]
       /\ ops' = [ops EXCEPT ![t] = n.o]
       /\ lock' = Released(lock, t, n.o)
    /\ UNCHANGED <<now, cache_manager, FastAPILimiter, lifecycle, limiter, check, db, auth>>

\* close_cache_manager: close the global manager and forget it
close_cache_manager ==
    /\ cache_manager # 0
    /\ Acquirable(lock)
    /\ managers' = [managers EXCEPT ![cache_manager] = Closed(managers[cache_manager], now)]
    /\ cache_manager' = 0
    /\ UNCHANGED <<now, FastAPILimiter, lifecycle, limiter, check, ops, lock, db, auth>>

\* another user of the shared store sets the key of a call to a value that
\* is not a (count, expiry) pair
Corrupt(p) ==
    /\ Acquirable(lock)
    /\ managers[1].open
    /\ managers' = [managers EXCEPT ![1] = SetItem(@, check[p].key, <<0>>, now)]
    /\ UNCHANGED <<now, cache_manager, FastAPILimiter, lifecycle, limiter, check, ops, lock, db, auth>>

\* ------------------------------------------------------------------ Auth
\* A refresh token is modelled by its jti (0: a token jwt.decode rejects); the
\* uuid4 of a new token is the number of the row it gets.  Auth reaches its
\* rows through db only; the db calls are modelled by what Auth does with
\* them: get_refresh_token returns the row or nothing, revoke_refresh_token
\* sets `revoked`, insert_refresh_token adds the row.

\* self.db.get_refresh_token(token_id): <<row>>, or <<>> for no row
get_refresh_token(rows, token_id) ==
    IF token_id \in 1..Len(rows) THEN <<rows[token_id]>> ELSE <<>>

\* self.db.revoke_refresh_token(token_id)
revoke_refresh_token(rows, token_id) ==
    [i \in 1..Len(rows) |-> IF i = token_id THEN [rows[i] EXCEPT !.revoked = TRUE]
                                             ELSE rows[i]]

\* store_refresh_token: self.db.insert_refresh_token(RefreshTokenData(...))
store_refresh_token(rows, user_id, device_id) ==
    Append(rows, [user_id |-> user_id, device_id |-> device_id, revoked |-> FALSE])

\* verify_refresh_token: 401 for a token that does not decode, has no row or
\* whose row is revoked; 200 stands for returning the row
verify_refresh_token(rows, token) ==
    LET record == get_refresh_token(rows, token)
    IN  IF token = 0 THEN 401
        ELSE IF record = <<>> \/ record[1].revoked THEN 401
        ELSE 200

\* create_refresh_token called at login: the first token of a device
create_refresh_token(user_id, device_id) ==
    /\ db = <<>>
    /\ db' = store_refresh_token(db, user_id, device_id)
    /\ UNCHANGED <<now, managers, cache_manager, FastAPILimiter, lifecycle, limiter, check,
                   ops, lock, auth>>

\* a thread calls verify_refresh_token or rotate_refresh_token
AuthCall(op, token, bound) ==
    /\ Len(auth) < bound
    /\ auth' = Append(auth, [op |-> op, token |-> token, pc |-> "verify",
                             status |-> 0, ret |-> 0,
                             after |-> { i \in 1..Len(auth) : auth[i].pc = "done" }])
    /\ UNCHANGED <<now, managers, cache_manager, FastAPILimiter, lifecycle, limiter, check,
                   ops, lock, db>>

\* the next db call of a call: rotate_refresh_token is verify_refresh_token
\* (line 162), revoke_refresh_token (line 163) and create_refresh_token
\* (line 164), each a db call of its own
AuthStep(i) ==
    LET c == auth[i] IN
    /\ c.pc # "done"
    /\ IF c.pc = "verify"
       THEN /\ auth' = [auth EXCEPT ![i] =
                   IF verify_refresh_token(db, c.token) = 401
                   THEN [c EXCEPT !.pc = "done", !.status = 401]
                   ELSE IF c.op = "verify" THEN [c EXCEPT !.pc = "done", !.status = 200]
                   ELSE [c EXCEPT !.pc = "revoke"]]
            /\ UNCHANGED db
       ELSE IF c.pc = "revoke"
       THEN /\ db' = revoke_refresh_token(db, c.token)
            /\ auth' = [auth EXCEPT ![i].pc = "create"]
       ELSE /\ db' = store_refresh_token(db, db[c.token].user_id, db[c.token].device_id)
            /\ auth' = [auth EXCEPT ![i] =
                            [c EXCEPT !.pc = "done", !.status = 200, !.ret = Len(db) + 1]]
    /\ UNCHANGED <<now, managers, cache_manager, FastAPILimiter, lifecycle, limiter, check,
                   ops, lock>>

\* ------------------------------------------------------- specifications
LifespanCache ==
    [cache_type |-> "TTLCache", max_size |-> LifespanMaxSize, ttl |-> LifespanTtl]

DefaultConfig ==
    [prefix |-> "fastapi-limiter", identifier |-> "default_identifier",
     http_callback |-> "http_default_callback", ws_callback |-> "ws_default_callback"]

\* the application's calls of the model: one client per limiter
OneEach == { c \in Calls : c.host = "10.0.0.1" /\ c.ctx = "" }

\* start-up, shutdown and limiter calls in any order, one call at a time
Next ==
    \/ init_cache_manager(LifespanCache)
    \/ \E cfg \in LimiterConfigs : LimiterInit(cfg)
    \/ LimiterClose
    \/ \E c \in OneEach : Call(c, MaxChecks, TRUE)
    \/ \E p \in 1..Len(check) : Read(p)
    \/ \E p \in 1..Len(check) : Act(p)
    \/ Tick(WholeSeconds)

Spec == Init /\ [][Next]_vars

\* after start-up, as lifespan leaves it
Started(cfg, times, seconds) ==
    /\ now = 0
    /\ managers = <<CacheManagerInit(cfg)>>
    /\ cache_manager = 1
    /\ FastAPILimiter = DefaultConfig
    /\ lifecycle = "active"
    /\ limiter = Limiters(times, seconds)
    /\ check = <<>>
    /\ ops = [t \in Threads |-> Idle]
    /\ lock = 0
    /\ db = <<>>
    /\ auth = <<>>

\* one client of the first limiter of the route
OneClient == { c \in Calls : c.g = "g1" /\ c.host = "10.0.0.1" }

\* the HTTP calls: three composite keys
HttpCalls == { c \in Calls : ~IsWebSocket(c.g) /\ (c.g = "g1" \/ c.host = "10.0.0.1") }

\* the running application: calls in parallel, the clock read at any instant
ParInit == \E times \in 1..MaxTimes : Started(LifespanCache, times, 1)

ParNext ==
    \/ \E c \in OneClient : Call(c, MaxChecks, FALSE)
    \/ \E p \in 1..Len(check) : Read(p)
    \/ \E p \in 1..Len(check) : Act(p)
    \/ Tick(TimePoints)

ParSpec == ParInit /\ [][ParNext]_vars

\* the running application with any of the stores: one call at a time
SeqInit == \E cfg \in CacheConfigs, times \in 0..MaxTimes : Started(cfg, times, 1)

SeqNext ==
    \/ \E c \in HttpCalls : Call(c, MaxChecks + 1, TRUE)
    \/ \E p \in 1..Len(check) : Read(p)
    \/ \E p \in 1..Len(check) : Act(p)
    \/ Tick(WholeSeconds)

SeqSpec == SeqInit /\ [][SeqNext]_vars

\* the scenario of the design's section 8: RateLimiter(times=3, seconds=5),
\* one client calling at 0, 1, 2, 3 and 6 seconds; a call takes less than a
\* second (the clock is read up to MaxFine ticks past the second it starts in)
ScenarioAt == <<0, 1, 2, 3, 6>>

ScenarioPoints ==
    { s * TicksPerSec + f : s \in 0..ScenarioAt[Len(ScenarioAt)], f \in 0..MaxFine }

ScenarioInit == Started(LifespanCache, 3, 5)

ScenarioCall ==
    /\ Len(check) < Len(ScenarioAt)
    /\ now = ScenarioAt[Len(check) + 1] * TicksPerSec
    /\ \E c \in OneClient : Call(c, Len(ScenarioAt), TRUE)

ScenarioTick ==
    /\ Tick(ScenarioPoints)
    /\ \A p \in 1..Len(check) :
            check[p].pc # "done" => (now \div TicksPerSec) = (now' \div TicksPerSec)

ScenarioNext ==
    \/ ScenarioCall
    \/ \E p \in 1..Len(check) : Read(p)
    \/ \E p \in 1..Len(check) : Act(p)
    \/ ScenarioTick

ScenarioSpec == ScenarioInit /\ [][ScenarioNext]_vars

\* the running application whose store is closed or misused under it
FaultInit == Started(LifespanCache, 1, 1)

FaultNext ==
    \/ \E c \in OneClient : Call(c, MaxChecks, FALSE)
    \/ \E p \in 1..Len(check) : Read(p)
    \/ \E p \in 1..Len(check) : Act(p)
    \/ \E p \in 1..Len(check) : Corrupt(p)
    \/ Begin(1, "close", "", 0, FALSE)
    \/ close_cache_manager
    \/ Tick(WholeSeconds)

FaultSpec == FaultInit /\ [][FaultNext]_vars

\* the running application: one client calls every guard of both routes
RouteCalls == { c \in Calls : ~IsWebSocket(c.g) /\ c.host = "10.0.0.1" } \cup ItemCalls

RouteInit == \E times \in 1..MaxTimes : Started(LifespanCache, times, 1)

RouteNext ==
    \/ \E c \in RouteCalls : Call(c, MaxChecks + 1, TRUE)
    \/ \E p \in 1..Len(check) : Read(p)
    \/ \E p \in 1..Len(check) : Act(p)
    \/ Tick(WholeSeconds)

RouteSpec == RouteInit /\ [][RouteNext]_vars

\* the running application: websocket messages checked under either context
WsCalls == { c \in Calls : IsWebSocket(c.g) }

WsInit == \E times \in 1..MaxTimes : Started(LifespanCache, times, 1)

WsNext ==
    \/ \E c \in WsCalls : Call(c, MaxChecks + 1, TRUE)
    \/ \E p \in 1..Len(check) : Read(p)
    \/ \E p \in 1..Len(check) : Act(p)
    \/ Tick(WholeSeconds)

WsSpec == WsInit /\ [][WsNext]_vars

\* the duration arguments a limiter is constructed with: each at least -1,
\* the milliseconds on either side of a whole second
Millis == { k * MsPerSec + d : k \in 0..MaxSec, d \in {-1, 0} }
Units == -1..MaxSec

\* the running application whose limiters were constructed with any durations
WindowInit ==
    \E ms \in Millis, s \in Units, m \in Units, h \in Units :
        /\ now = 0
        /\ managers = <<CacheManagerInit(LifespanCache)>>
        /\ cache_manager = 1
        /\ FastAPILimiter = DefaultConfig
        /\ lifecycle = "active"
        /\ limiter = [g \in Guards |-> RateLimiterInit(1, ms, s, m, h, None, None)]
        /\ check = <<>>
        /\ ops = [t \in Threads |-> Idle]
        /\ lock = 0
        /\ db = <<>>
        /\ auth = <<>>

WindowNext ==
    \/ \E c \in OneClient : Call(c, MaxChecks, TRUE)
    \/ \E p \in 1..Len(check) : Read(p)
    \/ \E p \in 1..Len(check) : Act(p)
    \/ Tick(WholeSeconds)

WindowSpec == WindowInit /\ [][WindowNext]_vars

\* the stores of the design's eviction scenario: capacity 2, one of each policy
SmallConfigs ==
    { [cache_type |-> "TTLCache", max_size |-> 2, ttl |-> SmallTtl],
      [cache_type |-> "LRUCache", max_size |-> 2, ttl |-> SmallTtl] }

\* the methods that take a key, and those that take none
KeyMethods == {"get", "set", "delete", "exists", "get_or_set", "increment", "decrement"}
PlainMethods == {"clear", "get_size"}

\* the numbers of the model stay small
InRange(op, k) ==
    LET v == GetOrZero(managers[1], k, now) IN
    /\ op = "increment" => v < MaxValue
    /\ op = "decrement" => v > 0

\* the instants at which the store is used: the whole seconds, and one past
\* the last of them
StorePoints == WholeSeconds \cup {MaxSec * TicksPerSec + 1}

\* one thread uses a store of capacity 2, method after method
StoreInit == \E cfg \in SmallConfigs : Started(cfg, 1, 1)

StoreNext ==
    \/ \E op \in KeyMethods, k \in Keys : InRange(op, k) /\ Begin(1, op, k, 1, TRUE)
    \/ \E op \in PlainMethods : Begin(1, op, "", 0, TRUE)
    \/ Step(1)
    \/ Tick(StorePoints)

StoreSpec == StoreInit /\ [][StoreNext]_vars

\* the LRU store of capacity 2 of the design's eviction scenario; the threads
\* call get and set one after the other, each thread once, so that ops is
\* the sequence of the calls made
LruInit == Started([cache_type |-> "LRUCache", max_size |-> 2, ttl |-> SmallTtl], 1, 1)

LruNext ==
    \E t \in Threads, op \in {"get", "set"}, k \in Keys :
        /\ \A u \in 1..(t - 1) : ops[u].pc = "done"
        /\ Begin(t, op, k, 1, FALSE)

LruSpec == LruInit /\ [][LruNext]_vars

\* the threads that count on one key in parallel, and the thread that may
\* have set the key before they start
Racers == 1..MaxRacers
Setter == MaxRacers + 1

\* stores in which nothing expires or is evicted while the threads count
RaceInit ==
    \E cfg \in {LifespanCache, [cache_type |-> "LRUCache", max_size |-> 2, ttl |-> SmallTtl]} :
        Started(cfg, 1, 1)

RaceNext ==
    \/ /\ \A t \in Racers : ops[t].pc = "idle"
       /\ Begin(Setter, "set", "a", MaxValue, FALSE)
    \/ \E t \in Racers, op \in {"increment", "decrement"}, amount \in 1..(MaxValue + 1) :
            Begin(t, op, "a", amount, FALSE)
    \/ \E t \in Racers : Step(t)
    \/ Tick(WholeSeconds)

RaceSpec == RaceInit /\ [][RaceNext]_vars

\* start-up with any requested capacity, under either policy
AnyConfigs ==
    { [cache_type |-> ct, max_size |-> n, ttl |-> SmallTtl] :
        ct \in {"TTLCache", "LRUCache"}, n \in -1..SmallMaxSize }

ConstructNext ==
    \/ \E cfg \in AnyConfigs : init_cache_manager(cfg)
    \/ \E cfg \in LimiterConfigs : LimiterInit(cfg)
    \/ \E c \in OneClient : Call(c, MaxChecks, TRUE)
    \/ \E p \in 1..Len(check) : Read(p)
    \/ \E p \in 1..Len(check) : Act(p)
    \/ Tick(WholeSeconds)

ConstructSpec == Init /\ [][ConstructNext]_vars

\* the running application with windows of one second and more: one HTTP and
\* one websocket client, the clock read on the second or a tick after the start
HintPoints == WholeSeconds \cup {1, (MaxSec + 1) * TicksPerSec}

HintCalls == { c \in OneEach : c.g \in {"g1", "ws1"} }

HintInit == \E seconds \in 1..(MaxSec + 1) : Started(LifespanCache, 1, seconds)

HintNext ==
    \/ \E c \in HintCalls : Call(c, MaxChecks + 1, TRUE)
    \/ \E p \in 1..Len(check) : Read(p)
    \/ \E p \in 1..Len(check) : Act(p)
    \/ Tick(HintPoints)

HintSpec == HintInit /\ [][HintNext]_vars

\* the running application: checks in parallel with threads that use the
\* shared store for a counter of their own, and a thread that closes it; the
\* event loop runs every ready call and every thread gets the processor; the
\* clock may pass the end of the window at any moment
Counter == <<"counter">>

LiveInit ==
    /\ now = 0
    /\ managers = <<CacheManagerInit(LifespanCache)>>
    /\ cache_manager = 1
    /\ FastAPILimiter = DefaultConfig
    /\ lifecycle = "active"
    /\ limiter = Limiters(1, 1)
    /\ check = <<>>
    /\ ops = [t \in Threads |-> [Idle EXCEPT !.key = <<>>]]
    /\ lock = 0
    /\ db = <<>>
    /\ auth = <<>>

LiveNext ==
    \/ \E c \in OneClient : Call(c, MaxChecks, FALSE)
    \/ \E p \in 1..Len(check) : Read(p)
    \/ \E p \in 1..Len(check) : Act(p)
    \/ \E op \in {"increment", "get_or_set", "delete"} : Begin(1, op, Counter, 1, FALSE)
    \/ Begin(2, "close", Counter, 0, FALSE)
    \/ \E t \in Threads : Step(t)
    \/ Tick({2 * TicksPerSec})

LiveFair ==
    /\ WF_vars(\E p \in 1..Len(check) : Read(p))
    /\ WF_vars(\E p \in 1..Len(check) : Act(p))
    /\ WF_vars(\E t \in Threads : Step(t))

LiveSpec == LiveInit /\ [][LiveNext]_vars /\ LiveFair

\* the running application with a store whose entries outlive the window and
\* a limit of one or more: clients of three keys call one at a time, and the
\* clock stands still while a call runs
EvictInit ==
    \E cfg \in { c \in CacheConfigs : c.ttl > 1 }, times \in 1..MaxTimes :
        Started(cfg, times, 1)

EvictTick == Tick(WholeSeconds) /\ \A p \in 1..Len(check) : check[p].pc = "done"

EvictNext ==
    \/ \E c \in HttpCalls : Call(c, MaxChecks + 2, TRUE)
    \/ \E p \in 1..Len(check) : Read(p)
    \/ \E p \in 1..Len(check) : Act(p)
    \/ EvictTick

EvictSpec == EvictInit /\ [][EvictNext]_vars

\* the running application with any limit from 0 on: one client's calls
\* in parallel
CountInit == \E times \in 0..(MaxTimes + 1) : Started(LifespanCache, times, 1)

CountNext ==
    \/ \E c \in OneClient : Call(c, MaxChecks + 1, FALSE)
    \/ \E p \in 1..Len(check) : Read(p)
    \/ \E p \in 1..Len(check) : Act(p)
    \/ Tick(WholeSeconds)

CountSpec == CountInit /\ [][CountNext]_vars

\* the running application with a websocket route /ws/{room}: a client in
\* room "a" under the context "b:c", in room "a:b" under the context "c", and
\* on the home route
RoomCalls ==
    { [g |-> "ws1", host |-> "10.0.0.1", path |-> "/ws/a", method |-> "GET",
       forwarded |-> <<>>, ctx |-> "b:c"],
      [g |-> "ws1", host |-> "10.0.0.1", path |-> "/ws/a:b", method |-> "GET",
       forwarded |-> <<>>, ctx |-> "c"] }
    \cup OneClient

KeyInit == \E times \in 1..MaxTimes : Started(LifespanCache, times, 1)

KeyNext ==
    \/ \E c \in RoomCalls : Call(c, MaxChecks + 1, TRUE)
    \/ \E p \in 1..Len(check) : Read(p)
    \/ \E p \in 1..Len(check) : Act(p)
    \/ Tick(WholeSeconds)

KeySpec == KeyInit /\ [][KeyNext]_vars

\* the token endpoints served by a pool of threads: a login, then calls of
\* verify_refresh_token and rotate_refresh_token with any token issued so far
\* or with one that does not decode
AuthInit == Started(LifespanCache, 1, 1)

AuthNext ==
    \/ create_refresh_token("u1", "d1")
    \/ \E op \in {"verify", "rotate"}, token \in 0..Len(db) : AuthCall(op, token, MaxRacers + 1)
    \/ \E i \in 1..Len(auth) : AuthStep(i)

AuthSpec == AuthInit /\ [][AuthNext]_vars

\* a store of capacity 2 used as a map: the threads call get, set, delete,
\* exists, clear and get_size one after the other, each thread once, so that
\* ops is the sequence of the calls made; the clock may reach the instant
\* at which the first entries expire
MapThreads == 1..(MaxRacers + 1)
MapPoints == {SmallTtl * TicksPerSec}

MapInit == \E cfg \in SmallConfigs : Started(cfg, 1, 1)

MapCall(t) ==
    /\ \A u \in 1..(t - 1) : ops[u].pc = "done"
    /\ \/ \E op \in {"get", "delete", "exists"}, k \in Keys : Begin(t, op, k, 0, FALSE)
       \/ \E k \in Keys, v \in {1, MaxValue + 1} : Begin(t, "set", k, v, FALSE)
       \/ \E op \in PlainMethods : Begin(t, op, "", 0, FALSE)

MapNext ==
    \/ \E t \in MapThreads : MapCall(t)
    \/ \E t \in MapThreads : Step(t)
    \/ Tick(MapPoints)

MapSpec == MapInit /\ [][MapNext]_vars

\* the running application whose route with a path parameter carries a guard
\* with a window of one second and a guard with a longer window; one client
\* calls the guards of both routes, one call at a time
MixedLimiters ==
    [g \in Guards |->
        RateLimiterInit(1, 0, IF g = "g4" THEN MaxSec + 1 ELSE 1, 0, 0, None, None)]

MixedInit ==
    /\ now = 0
    /\ managers = <<CacheManagerInit(LifespanCache)>>
    /\ cache_manager = 1
    /\ FastAPILimiter = DefaultConfig
    /\ lifecycle = "active"
    /\ limiter = MixedLimiters
    /\ check = <<>>
    /\ ops = [t \in Threads |-> Idle]
    /\ lock = 0
    /\ db = <<>>
    /\ auth = <<>>

MixedNext ==
    \/ \E c \in RouteCalls : Call(c, MaxChecks + 1, TRUE)
    \/ \E p \in 1..Len(check) : Read(p)
    \/ \E p \in 1..Len(check) : Act(p)
    \/ Tick(WholeSeconds)

MixedSpec == MixedInit /\ [][MixedNext]_vars

\* the running application whose store also holds a counter of the
\* application: the clients of the home route call one at a time, a thread
\* calls increment or decrement on a key that holds a record of the limiter,
\* and another thread counts on the counter
SharedInit ==
    \E cfg \in {LifespanCache, [cache_type |-> "LRUCache", max_size |-> 2, ttl |-> SmallTtl]} :
        /\ now = 0
        /\ managers = <<CacheManagerInit(cfg)>>
        /\ cache_manager = 1
        /\ FastAPILimiter = DefaultConfig
        /\ lifecycle = "active"
        /\ limiter = Limiters(1, 1)
        /\ check = <<>>
        /\ ops = [t \in Threads |-> [Idle EXCEPT !.key = <<>>]]
        /\ lock = 0
        /\ db = <<>>
        /\ auth = <<>>

SharedNext ==
    \/ \E c \in { d \in HttpCalls : d.g = "g1" } : Call(c, MaxChecks, TRUE)
    \/ \E p \in 1..Len(check) : Read(p)
    \/ \E p \in 1..Len(check) : Act(p)
    \/ \E op \in {"increment", "decrement"}, k \in { check[p].key : p \in 1..Len(check) } :
            /\ HoldsTuple(managers[1], k, now)
            /\ Begin(1, op, k, 1, FALSE)
    \/ Begin(2, "increment", Counter, 1, FALSE)
    \/ \E t \in {1, 2} : Step(t)
    \/ Tick(WholeSeconds)

SharedSpec == SharedInit /\ [][SharedNext]_vars

\* ---------------------------------------------------------------- claims
Done(p) == check[p].pc = "done"
Window(g) == limiter[g].ttl_seconds * TicksPerSec
Store == managers[1]

\* the calls made so far on the key of call q, q included
SameKey(q) == { p \in 1..Len(check) : check[p].key = check[q].key }

\* C1: when K calls run in parallel on one fresh key with limit N < K, all
\* inside one window, exactly N of them are allowed and K - N are denied.
\* (Every call of ParSpec is on the one key, and N >= 1.)
ClaimC1 ==
    LET K       == Len(check)
        N       == limiter["g1"].times
        allowed == { p \in 1..K : check[p].result = "ALLOW" }
        denied  == { p \in 1..K : check[p].result = "DENY" }
    IN  ( /\ K > N
          /\ \A p \in 1..K : Done(p) /\ now < check[p].at + Window("g1") )
        => Cardinality(allowed) = N /\ Cardinality(denied) = K - N

\* C3: a check that finds a record and compares the clock strictly after the
\* record's expiry stores (1, now + window) and is allowed, whatever the count
TheoremC3 ==
    [][ \A p \in 1..Len(check) :
          ( /\ check[p].pc = "act" /\ check'[p].pc = "done"
            /\ check[p].current # Absent
            /\ check[p].at > check[p].current[2] )
          => /\ check'[p].result = "ALLOW"
             /\ CacheGetValue(managers'[1], check[p].key, now)
                    = <<1, now + Window(check[p].call.g)>> ]_vars

\* a call found a record at its limit, after the record's expiry, and was allowed
WitnessC3 ==
    \E p \in 1..Len(check) :
        /\ Done(p) /\ check[p].result = "ALLOW"
        /\ check[p].current # Absent
        /\ check[p].current[1] >= limiter[check[p].call.g].times
        /\ check[p].at > check[p].current[2]
        /\ CacheGetValue(Store, check[p].key, now) # Absent

\* C4: a check that finds a record at its limit while the window has not
\* elapsed (now <= expiry; the check compares and answers at the same instant)
\* is denied: its callback runs with max(0, expiry - now) in milliseconds; it
\* is never allowed
ClaimC4 ==
    [][ \A p \in 1..Len(check) :
          ( /\ check[p].pc = "act" /\ check'[p].pc = "done"
            /\ check[p].current # Absent
            /\ check[p].current[1] >= limiter[check[p].call.g].times
            /\ check[p].at = now
            /\ now <= check[p].current[2] )
          => /\ check'[p].result = "DENY"
             /\ check'[p].callback # None
             /\ check'[p].pexpire = (check[p].current[2] - now) \div TicksPerMs ]_vars

\* C2: for every limit N >= 0 and a fresh key, of N + 1 calls made one after
\* the other within one window the first N are allowed and the last is denied
ClaimC2 ==
    \A q \in 1..Len(check) :
        LET N     == limiter[check[q].call.g].times
            same  == { p \in SameKey(q) : p <= q }
            first == CHOOSE p \in same : \A o \in same : p <= o
        IN  ( /\ Done(q)
              /\ Cardinality(same) = N + 1
              /\ check[q].at < check[first].at + Window(check[q].call.g) )
            => /\ check[q].result = "DENY"
               /\ \A p \in same \ {q} : check[p].result = "ALLOW"

\* the entries of a store, whatever their order of use
Entries(m) == { m.cache[i] : i \in 1..Len(m.cache) }

\* C5: a denied check changes no entry of the store: neither its cache.get
\* (which every check makes) nor its answer adds, removes or rewrites one
TheoremC5 ==
    [][ \A p \in 1..Len(check) :
          /\ (check[p].pc = "check" /\ check'[p].pc # "check")
                => Entries(managers'[1]) = Entries(managers[1])
          /\ (check[p].result = "" /\ check'[p].result = "DENY")
                => Entries(managers'[1]) = Entries(managers[1]) ]_vars

\* a call was denied while the store held another key's record as well
WitnessC5 ==
    \E p \in 1..Len(check) :
        /\ check[p].result = "DENY"
        /\ \E e \in Entries(Store) : e.key # check[p].key
        /\ \E e \in Entries(Store) : e.key = check[p].key /\ e.value = check[p].current

\* C6: a step of a check on one key leaves the record of every other key as
\* it was
ClaimC6 ==
    [][ \A p \in 1..Len(check) :
          check'[p] # check[p]
          => \A i \in 1..Len(managers[1].cache) :
                LET k == managers[1].cache[i].key
                IN  k # check[p].key
                    => CacheGetValue(managers'[1], k, now) = CacheGetValue(managers[1], k, now)
      ]_vars

\* C8: while FastAPILimiter has not been initialised, a call fails: it is
\* neither allowed nor denied, and no record is stored
ClaimC8 ==
    FastAPILimiter = Unconfigured
    => /\ \A p \in 1..Len(check) : check[p].result \notin {"ALLOW", "DENY"}
       /\ \A i \in 1..Len(managers) : managers[i].cache = <<>>

\* C9: a call made after init() and close(), with no init() since, fails: it
\* is neither allowed nor denied
ClaimC9 ==
    \A p \in 1..Len(check) :
        check[p].phase = "closed" => check[p].result \notin {"ALLOW", "DENY"}

\* what a limiter must use at this moment: its own function if it was given
\* one, else the one FastAPILimiter holds now
Expected(own, configured) == IF own = None THEN configured ELSE own

\* C10: the identifier and the callback are looked up when the call needs
\* them: the identifier (and the HTTP callback) as the call starts, the
\* websocket callback as _check returns, each the limiter's own function
\* or else FastAPILimiter's at that moment; a call whose identifier is
\* missing fails, and no later step replaces what was looked up
TheoremC10 ==
    [][ /\ (Len(check') > Len(check) /\ cache_manager # 0) =>
            LET r    == check'[Len(check')]
                self == limiter[r.call.g]
                id   == Expected(self.identifier, FastAPILimiter.identifier)
            IN  IF id = None THEN r.error = "TypeError"
                ELSE /\ r.pc = "check" /\ r.identifier = id
                     /\ ~IsWebSocket(r.call.g) =>
                            r.callback = Expected(self.callback, FastAPILimiter.http_callback)
        /\ \A p \in 1..Len(check) :
            LET self == limiter[check[p].call.g] IN
            /\ check'[p].identifier = check[p].identifier
            /\ (~IsWebSocket(check[p].call.g) \/ check[p].pc = "done")
                    => check'[p].callback = check[p].callback
            /\ (IsWebSocket(check[p].call.g) /\ check[p].pc = "act" /\ check'[p].pc = "done")
                    => check'[p].callback = Expected(self.callback, FastAPILimiter.ws_callback)
      ]_vars

\* a websocket call took its identifier from the configuration it started
\* under and, denied, the callback of the configuration set while it ran
WitnessC10 ==
    \E p \in 1..Len(check) :
        /\ check[p].call.g = "ws1" /\ check[p].result = "DENY"
        /\ check[p].identifier = "default_identifier"
        /\ check[p].callback = "ws_custom_callback"

\* C7: with limit 3 and a window of 5 s, calls of one client at 0, 1, 2 and
\* 3 s are allowed, allowed, allowed and denied with about 2000 ms to wait
\* (within a millisecond), and a call at 6 s is allowed and leaves the
\* record at count 1 in a new window
TheoremC7 ==
    \A p \in 1..Len(check) :
        Done(p) =>
            /\ p \in 1..3 => check[p].result = "ALLOW"
            /\ p = 4 => /\ check[p].result = "DENY"
                        /\ check[p].pexpire \in (2 * MsPerSec - 1)..(2 * MsPerSec)
            /\ p = 5 => /\ check[p].result = "ALLOW"
                        /\ check[p].current # Absent
                        /\ LET v == CacheGetValue(Store, check[p].key, now)
                           IN  /\ v # Absent
                               /\ v[1] = 1
                               /\ v[2] >= (6 + 5) * TicksPerSec
                               /\ v[2] <= (6 + 5) * TicksPerSec + MaxFine

\* the five calls of the scenario have been answered
WitnessC7 ==
    /\ Len(check) = 5
    /\ \A p \in 1..5 : Done(p) /\ check[p].at \div TicksPerSec = ScenarioAt[p]
    /\ check[4].result = "DENY"
    /\ check[5].result = "ALLOW"

\* a store operation of call p fails at this step: the manager is gone or
\* closed, or the value read is not a pair, or the store is closed at the set
StoreFails(p) ==
    LET r == check[p] IN
    \/ /\ r.pc = "check"
       /\ \/ cache_manager = 0
          \/ ~managers[cache_manager].open
          \/ Malformed(CacheGetValue(managers[cache_manager], r.key, now))
    \/ /\ r.pc = "act"
       /\ r.branch # "deny"
       /\ ~managers[r.cache].open

\* C11: a step of a check at which a store operation fails ends the check
\* with an error: it is neither allowed nor denied, no callback is attached,
\* no entry of the store is written, and the ended check takes no further step
TheoremC11 ==
    [][ \A p \in 1..Len(check) :
          /\ (check'[p] # check[p] /\ StoreFails(p))
                => /\ check'[p].pc = "done"
                   /\ check'[p].result = "ERROR"
                   /\ check'[p].error \in {"Exception", "RuntimeError"}
                   /\ check'[p].pexpire = 0
                   /\ Entries(managers'[1]) = Entries(managers[1])
          /\ check[p].pc = "done" => check'[p] = check[p] ]_vars

\* one call failed on a value that is not a pair, another at its set on the
\* store closed after its read
WitnessC11 ==
    \E p, q \in 1..Len(check) :
        /\ check[p].error = "Exception" /\ check[p].branch = ""
        /\ check[q].error = "Exception" /\ check[q].branch = "new"
        /\ ~Store.open

\* the endpoint discriminator of an HTTP key: its route index and guard position
Discriminator(key) == <<key[Len(key) - 1], key[Len(key)]>>

\* C12: two calls dispatched to one route through two distinct guards of the
\* route have different endpoint discriminators and different composite keys
ClaimC12 ==
    \A p, q \in 1..Len(check) :
        ( /\ check[p].call.path = check[q].call.path
          /\ check[p].call.g # check[q].call.g )
        => /\ Discriminator(check[p].key) # Discriminator(check[q].key)
           /\ check[p].key # check[q].key

\* the calls up to q made by q's caller under q's context
SameContext(q) == { p \in 1..q : check[p].call = check[q].call }

\* C13: a websocket check counts per caller and context_key: its key is the
\* prefix, "ws", the identity and the context_key, and, answered inside the
\* window that the caller's first check under that context opened, it is
\* allowed exactly when it is among the first `times` checks of that caller
\* under that context, whatever was checked under other contexts; denied, it
\* gets the websocket callback
TheoremC13 ==
    [][ \A q \in 1..Len(check) :
          LET same  == SameContext(q)
              first == CHOOSE p \in same : \A o \in same : p <= o
              c     == check[q].call
          IN  ( /\ check[q].pc = "act" /\ check'[q].pc = "done"
                /\ now < check[first].at + Window(c.g) )
              => /\ check[q].key = <<"fastapi-limiter", "ws", c.host, c.path, c.ctx>>
                 /\ check'[q].result =
                        IF Cardinality(same) <= limiter[c.g].times THEN "ALLOW" ELSE "DENY"
                 /\ check'[q].result = "DENY" => check'[q].callback = "ws_default_callback"
      ]_vars

\* a caller was denied under one context and allowed under another after that
WitnessC13 ==
    \E p, q \in 1..Len(check) :
        /\ p < q
        /\ check[p].call.host = check[q].call.host
        /\ check[p].call.ctx # check[q].call.ctx
        /\ check[p].result = "DENY"
        /\ check[q].result = "ALLOW"

\* floor(milliseconds / 1000) + seconds + 60 * minutes + 3600 * hours, the
\* floor being the whole number q with 1000 * q <= milliseconds < 1000 * (q + 1)
Requested(given) ==
    LET q == CHOOSE q \in -1..(MaxSec + 1) :
                1000 * q <= given[1] /\ given[1] < 1000 * (q + 1)
    IN  q + given[2] + 60 * given[3] + 3600 * given[4]

\* C14: the window of a limiter is the requested duration in seconds, or 1 if
\* that is less than 1; it is at least 1, and a record a check opens expires
\* that many seconds after the check stored it
TheoremC14 ==
    /\ \A g \in Guards :
            /\ limiter[g].ttl_seconds =
                    IF Requested(limiter[g].given) >= 1
                    THEN Requested(limiter[g].given) ELSE 1
            /\ limiter[g].ttl_seconds >= 1
    /\ \A p \in 1..Len(check) :
            (Done(p) /\ check[p].branch = "new" /\ p = Len(check))
            => LET v == CacheGetValue(Store, check[p].key, check[p].at)
               IN  /\ v # Absent
                   /\ v[2] >= check[p].at + Window(check[p].call.g)
                   /\ v[2] <= now + Window(check[p].call.g)

\* a limiter asked for a negative duration opened a window of one second
WitnessC14 ==
    /\ Requested(limiter["g1"].given) < 0
    /\ \E p \in 1..Len(check) :
            /\ check[p].result = "ALLOW"
            /\ CacheGetValue(Store, check[p].key, check[p].at) = <<1, check[p].at + TicksPerSec>>

\* the keys a store holds at time t
Present(m, t) == { k \in Keys : Contains(m, k, t) }

\* C15: a store never holds more entries than its capacity, and a method
\* that puts a new key into a store holding as many entries as its capacity
\* removes exactly one of the keys held before and leaves the store full
TheoremC15 ==
    [][ LET C      == managers[1].max_size
            before == Present(managers[1], now)
            after  == Present(managers'[1], now')
        IN  /\ Len(managers'[1].cache) <= C
            /\ Size(managers'[1], now') <= C
            /\ (Size(managers[1], now) = C /\ after \ before # {})
                    => /\ Cardinality(before \ after) = 1
                       /\ Cardinality(after \ before) = 1
                       /\ Size(managers'[1], now') = C ]_vars

\* a set of a new key on a full store has returned
WitnessC15 ==
    /\ ops[1].op = "set" /\ ops[1].pc = "done" /\ ops[1].err = ""
    /\ ops[1].size = Store.max_size /\ ~ops[1].held
    /\ Contains(Store, ops[1].key, now)
    /\ Size(Store, now) = Store.max_size

\* The LRU discipline told from the calls alone: RefKeys(n) are the keys held
\* after the first n calls, RefLast(k, n) is the last of the first n calls
\* that used k (a set of k, or a get of k while it was held), 0 if none did.
RECURSIVE RefKeys(_), RefLast(_, _)
RefKeys(n) ==
    IF n = 0 THEN {}
    ELSE LET held == RefKeys(n - 1)
             k    == ops[n].key
         IN  IF ops[n].op # "set" \/ k \in held THEN held
             ELSE IF Cardinality(held) < Store.max_size THEN held \cup {k}
             ELSE LET lru == CHOOSE j \in held :
                                \A i \in held : RefLast(j, n - 1) <= RefLast(i, n - 1)
                  IN  (held \ {lru}) \cup {k}

RefLast(k, n) ==
    IF n = 0 THEN 0
    ELSE IF ops[n].key = k /\ (ops[n].op = "set" \/ k \in RefKeys(n - 1)) THEN n
    ELSE RefLast(k, n - 1)

\* the calls made so far
Made == Cardinality({ t \in Threads : ops[t].pc = "done" })

\* the calls made so far are exactly these (op, key) pairs, in this order
Log(calls) ==
    /\ Made = Len(calls)
    /\ \A i \in 1..Len(calls) : ops[i].op = calls[i][1] /\ ops[i].key = calls[i][2]

\* C16: under the LRU policy the store holds what the discipline "on
\* overflow, drop the key whose last get or set is the oldest" leaves, and a
\* get finds a key exactly when that discipline holds it; after set a, set b,
\* set c on capacity 2 the store holds exactly b and c
TheoremC16 ==
    /\ Present(Store, now) = RefKeys(Made)
    /\ \A n \in 1..Made : ops[n].op = "get" => (ops[n].none <=> ops[n].key \notin RefKeys(n - 1))
    /\ Log(<< <<"set", "a">>, <<"set", "b">>, <<"set", "c">> >>)
            => Present(Store, now) = {"b", "c"}

\* a was read before c came in, and b was dropped
WitnessC16 ==
    /\ Log(<< <<"set", "a">>, <<"set", "b">>, <<"get", "a">>, <<"set", "c">> >>)
    /\ Present(Store, now) = {"a", "c"}

\* C17: under the TTL policy an entry is stored with the lifetime of the
\* store from the instant of its insertion, and a get or an exists made
\* after that lifetime has run out answers None or False, although nothing
\* has removed the entry in between
TheoremC17 ==
    [][ LET m == managers[1]
            o == ops'[1]
            i == IndexOf(m.cache, o.key)
            j == IndexOf(managers'[1].cache, o.key)
        IN  (m.cache_type = "TTLCache" /\ ops'[1] # ops[1] /\ o.pc = "done" /\ o.err = "")
            => /\ (o.op = "set")
                    => managers'[1].cache[j].expires = now + m.ttl * TicksPerSec
               /\ (o.op = "get" /\ i # 0 /\ now > m.cache[i].expires) => o.none
               /\ (o.op = "exists" /\ i # 0 /\ now > m.cache[i].expires) => o.ret = 0
      ]_vars

\* an exists answered False for an entry that outlived its lifetime in the store
WitnessC17 ==
    LET i == IndexOf(Store.cache, ops[1].key) IN
    /\ Store.cache_type = "TTLCache"
    /\ ops[1].op = "exists" /\ ops[1].pc = "done" /\ ops[1].ret = 0
    /\ i # 0 /\ now > Store.cache[i].expires

\* C18: a get_or_set that returns gives back the value the store holds under
\* the key as it returns: the value that was there when it was called, if
\* there was one, else the default, which it has stored; it does not fail
ClaimC18 ==
    [][ LET o == ops'[1] IN
        (ops'[1] # ops[1] /\ o.op = "get_or_set" /\ o.pc = "done")
        => /\ o.err = ""
           /\ Contains(managers'[1], o.key, now)
           /\ o.ret = GetOrZero(managers'[1], o.key, now)
           /\ ~o.held => o.ret = o.arg ]_vars

\* what a call adds to the number under its key
Signed(o) == IF o.op = "increment" THEN o.arg ELSE -o.arg

RECURSIVE SumOf(_)
SumOf(S) == IF S = {} THEN 0
            ELSE LET t == CHOOSE t \in S : TRUE IN Signed(ops[t]) + SumOf(S \ {t})

\* the number under the key before the threads count: what was set, 0 if nothing was
Initial(o) == IF o.pc = "done" THEN o.arg ELSE 0

\* C19: whatever the interleaving of the increment and decrement calls on a
\* key, the key holds its initial number (0 if it was absent) plus the signed
\* amounts of the calls that have returned, and a call returns the number it
\* found plus its signed amount, which is what the key holds as it returns
TheoremC19 ==
    [][ /\ GetOrZero(managers'[1], "a", now')
            = Initial(ops'[Setter])
              + SumOf({ t \in Racers : ops'[t].pc = "done" /\ ops'[t].err = "" })
        /\ \A t \in Racers :
            (ops[t].pc = "write" /\ ops'[t].pc = "done")
            => /\ ops'[t].ret = GetOrZero(managers[1], "a", now) + Signed(ops[t])
               /\ ops'[t].ret = GetOrZero(managers'[1], "a", now') ]_vars

\* every thread has counted on a key that was absent, at least one of them down
WitnessC19 ==
    /\ ops[Setter].pc = "idle"
    /\ \A t \in Racers : ops[t].pc = "done" /\ ops[t].err = ""
    /\ \E t \in Racers : ops[t].op = "decrement"
    /\ \E t \in Racers : ops[t].op = "increment"
    /\ GetOrZero(Store, "a", now) = SumOf(Racers)

\* C20: no manager is made, and none is installed as the global one, with a
\* capacity of 0 or less
ClaimC20 ==
    /\ \A i \in 1..Len(managers) : managers[i].max_size >= 1
    /\ cache_manager # 0 => managers[cache_manager].max_size >= 1

\* C21: a check denied through a default callback answers 429 with a
\* Retry-After of s whole seconds, where s is the least whole number of
\* seconds that is not less than the remaining r > 0 milliseconds: s >= 1,
\* 1000 * s >= r and 1000 * (s - 1) < r
TheoremC21 ==
    \A p \in 1..Len(check) :
        ( /\ check[p].result = "DENY"
          /\ check[p].callback \in {"http_default_callback", "ws_default_callback"} )
        => /\ check[p].pexpire > 0
           /\ check[p].status = 429
           /\ check[p].retry_after >= 1
           /\ 1000 * check[p].retry_after >= check[p].pexpire
           /\ 1000 * (check[p].retry_after - 1) < check[p].pexpire

\* a check was denied with more than a second left in a window and a
\* remaining time that is not a whole number of seconds
WitnessC21 ==
    \E p \in 1..Len(check) :
        /\ check[p].result = "DENY"
        /\ check[p].callback \in {"http_default_callback", "ws_default_callback"}
        /\ check[p].pexpire % 1000 # 0
        /\ check[p].retry_after >= 2

\* C22: every check that has started ends with a decision or an error, the
\* lock is held only by a thread inside a store method and is released again,
\* whatever the interleaving of checks and store methods
TheoremC22 ==
    /\ \A p \in 1..MaxChecks :
            (Len(check) >= p) ~> (Len(check) >= p /\ check[p].pc = "done")
    /\ [](lock # 0 => ops[lock].pc \in {"del", "store", "read", "write"})
    /\ (lock # 0) ~> (lock = 0)

\* a check waits for its write while a thread is inside a store method, and
\* an earlier check has returned
WitnessC22 ==
    /\ lock # 0
    /\ \E p, q \in 1..Len(check) :
            /\ check[p].pc = "act" /\ check[p].branch # "deny"
            /\ check[q].pc = "done" /\ check[q].result = "ALLOW"

\* the checks allowed on the key of check p from p on and before the expiry
\* of the record that p stored
AllowedInWindow(p) ==
    { q \in SameKey(p) : /\ q >= p
                         /\ check[q].result = "ALLOW"
                         /\ check[q].at < check[p].stored[2] }

\* C23: when checks run one at a time over several keys, then for every key
\* and every window of it (from the check that creates the record to the
\* instant before that record's expiry) at most `limit` checks are allowed
ClaimC23 ==
    \A p \in 1..Len(check) :
        (Done(p) /\ check[p].result = "ALLOW" /\ check[p].branch \in {"new", "reset"})
        => Cardinality(AllowedInWindow(p)) <= limiter[check[p].call.g].times

\* C24: a check allowed on a record that is there, unexpired and under the
\* limit stores that record with its count raised by one and its expiry as
\* it was
TheoremC24 ==
    [][ \A p \in 1..Len(check) :
          ( /\ check[p].pc = "act" /\ check'[p].pc = "done"
            /\ check[p].branch = "incr" )
          => LET old == CacheGetValue(managers[1], check[p].key, now)
                 new == CacheGetValue(managers'[1], check[p].key, now)
             IN  /\ old # Absent /\ now <= old[2]
                 /\ old[1] < limiter[check[p].call.g].times
                 /\ check'[p].result = "ALLOW"
                 /\ new = <<old[1] + 1, old[2]>>
      ]_vars

\* the third request of a window was counted on the record of the first
WitnessC24 ==
    \E p, q \in 1..Len(check) :
        /\ p < q
        /\ check[p].branch = "new" /\ Done(p)
        /\ check[q].branch = "incr" /\ Done(q) /\ check[q].result = "ALLOW"
        /\ check[q].stored = <<3, check[p].stored[2]>>
        /\ check[q].at > check[p].at
        /\ CacheGetValue(Store, check[q].key, now) = check[q].stored

\* C25: whatever the interleaving of the checks, the count of every stored
\* record is at least 1 and at most max(1, N), N the limit of its limiter
TheoremC25 ==
    \A e \in Entries(Store) :
        /\ e.value[1] >= 1
        /\ e.value[1] <= Max(1, limiter["g1"].times)

\* two checks that read the same record have both counted on it, and the
\* record stands at a limit of 2
WitnessC25 ==
    /\ limiter["g1"].times = 2
    /\ \E e \in Entries(Store) : e.value[1] = 2
    /\ \E p, q \in 1..Len(check) :
            /\ p # q /\ Done(p) /\ Done(q)
            /\ check[p].branch = "incr" /\ check[q].branch = "incr"
            /\ check[p].current = check[q].current

\* C26: whatever the interleaving of the checks, no step replaces the record
\* of a key by a record with an earlier expiry
ClaimC26 ==
    [][ \A e \in Entries(managers[1]), f \in Entries(managers'[1]) :
            e.key = f.key => f.value[2] >= e.value[2]
      ]_vars

\* what the key of check p is made from: the entry point, the identity, the
\* endpoint (route index, guard position) and the context
MadeFrom(p) ==
    LET c == check[p].call IN
    << IsWebSocket(c.g),
       Identify(check[p].identifier, c),
       IF IsWebSocket(c.g) THEN <<0, 0>> ELSE ScanRoutes(c.g, c, 1, <<0, 0>>),
       c.ctx >>

\* C27: two checks have the same key only if they agree on the entry point,
\* the identity, the endpoint and the context
ClaimC27 ==
    \A p, q \in 1..Len(check) :
        (check[p].key # <<>> /\ check[p].key = check[q].key)
        => MadeFrom(p) = MadeFrom(q)

\* the checks on the key of p that were made after p and before q and allowed
AllowedBetween(p, q) ==
    { r \in SameKey(p) : p < r /\ r < q /\ check[r].result = "ALLOW" }

\* C28: after a check is denied at time t with a Retry-After of s seconds, a
\* check on the same key made at t + s or later is not denied, unless a check
\* on that key was allowed in between
TheoremC28 ==
    \A p, q \in 1..Len(check) :
        ( /\ p < q /\ q \in SameKey(p) /\ Done(q)
          /\ check[p].result = "DENY"
          /\ check[q].at >= check[p].decided + check[p].retry_after * TicksPerSec
          /\ AllowedBetween(p, q) = {} )
        => check[q].result # "DENY"

\* a denied check said to retry after one second, and the check made one
\* second later, half a millisecond before the record's expiry, was allowed
WitnessC28 ==
    \E p, q \in 1..Len(check) :
        /\ p < q /\ q \in SameKey(p) /\ Done(q)
        /\ check[p].result = "DENY" /\ check[p].retry_after = 1
        /\ check[q].at = check[p].decided + TicksPerSec
        /\ check[q].branch = "deny" /\ check[q].at < check[q].current[2]
        /\ check[q].result = "ALLOW"

\* the calls of rotate_refresh_token with the token that have returned a new
\* token
Rotated(token) ==
    { i \in 1..Len(auth) : /\ auth[i].op = "rotate" /\ auth[i].token = token
                           /\ auth[i].pc = "done" /\ auth[i].status = 200 }

\* C29: of the calls of rotate_refresh_token with one old token, whatever
\* their interleaving, at most one returns a new token; once one has, the
\* old token's row is revoked, and a verify or rotate of the old token
\* that starts afterwards fails with 401
ClaimC29 ==
    \A token \in 1..Len(db) :
        /\ Cardinality(Rotated(token)) <= 1
        /\ Rotated(token) # {} => db[token].revoked
        /\ \A j \in 1..Len(auth) :
              ( /\ auth[j].token = token /\ auth[j].pc = "done"
                /\ auth[j].after \cap Rotated(token) # {} )
              => auth[j].status = 401

\* the plain finite map after the first n calls: key -> value, 0 for absent
RECURSIVE RefMap(_)
RefMap(n) ==
    IF n = 0 THEN [k \in Keys |-> 0]
    ELSE LET o == ops[n]
             m == RefMap(n - 1)
         IN  IF o.op = "set" THEN [m EXCEPT ![o.key] = o.arg]
             ELSE IF o.op = "delete" THEN [m EXCEPT ![o.key] = 0]
             ELSE IF o.op = "clear" THEN [k \in Keys |-> 0]
             ELSE m

RefHeld(n) == LET m == RefMap(n) IN { k \in Keys : m[k] # 0 }

\* the map has not outgrown the store in the first n calls, and no entry can
\* have expired yet
WithinCapacity(n) == \A i \in 0..n : Cardinality(RefHeld(i)) <= Store.max_size
Unexpired == Store.cache_type = "LRUCache" \/ now < Store.ttl * TicksPerSec

\* call n answered as the map does
AsMap(n) ==
    LET o      == ops[n]
        before == RefMap(n - 1)
    IN  /\ o.err = ""
        /\ o.op = "get" => (o.none <=> before[o.key] = 0) /\ o.ret = before[o.key]
        /\ o.op \in {"delete", "exists"} => o.ret = (IF before[o.key] # 0 THEN 1 ELSE 0)
        /\ o.op = "get_size" => o.ret = Cardinality(RefHeld(n - 1))

\* C30: while the capacity is not exceeded and nothing has expired, the store
\* answers as a plain finite map: get gives the last value set or nothing,
\* delete and exists tell whether the key was there, get_size is the number
\* of keys, and between calls the store holds exactly the map (so delete
\* removes its key only and clear leaves nothing)
TheoremC30 ==
    Unexpired
    => /\ \A n \in 1..Made : WithinCapacity(n) => AsMap(n)
       /\ ( (\A t \in Threads : ops[t].pc \in {"idle", "done"}) /\ WithinCapacity(Made) )
          => /\ \A k \in Keys : GetOrZero(Store, k, now) = RefMap(Made)[k]
             /\ Size(Store, now) = Cardinality(RefHeld(Made))

\* two keys were set, one of them was deleted with the answer True, and the
\* other is still there
WitnessC30 ==
    /\ Unexpired /\ Made = 3 /\ WithinCapacity(3)
    /\ ops[1].op = "set" /\ ops[2].op = "set" /\ ops[1].key # ops[2].key
    /\ ops[3].op = "delete" /\ ops[3].key = ops[1].key /\ ops[3].ret = 1
    /\ Present(Store, now) = {ops[2].key}

\* the callback of check p was invoked (with check[p].pexpire)
Rejected(p) ==
    \/ check[p].result = "DENY"
    \/ check[p].result = "ERROR" /\ check[p].pexpire # 0

\* C31: the remaining time r handed to a rejection callback satisfies
\* 0 < r <= 1000 * windowSeconds, the window of the limiter that made the check
ClaimC31 ==
    \A p \in 1..Len(check) :
        Rejected(p)
        => /\ 0 < check[p].pexpire
           /\ check[p].pexpire <= 1000 * limiter[check[p].call.g].ttl_seconds

\* container n holds the entries of container m, whatever their order
SameEntries(m, n) ==
    /\ Len(m.cache) = Len(n.cache)
    /\ \A i \in 1..Len(m.cache) :
          LET j == IndexOf(n.cache, m.cache[i].key)
          IN  j # 0 /\ n.cache[j] = m.cache[i]

\* C32: increment or decrement on a key that holds a tuple raises an error,
\* leaves that entry and every other entry of the store as they were, and
\* leaves the lock free
TheoremC32 ==
    [][ \A t \in Threads :
          ( /\ ops[t].pc # "done" /\ ops'[t].pc = "done"
            /\ ops'[t].op \in {"increment", "decrement"}
            /\ HoldsTuple(managers[1], ops'[t].key, now) )
          => /\ ops'[t].err = "TypeError"
             /\ SameEntries(managers[1], managers'[1])
             /\ lock' = 0
      ]_vars

\* increment failed on a rate-limit record while the store held the counter
\* too; afterwards another thread counted on the counter, and the record and
\* the lock are as a limiter call needs them
WitnessC32 ==
    \E t, u \in Threads, p \in 1..Len(check) :
        /\ ops[t].pc = "done" /\ ops[t].err = "TypeError" /\ ops[t].key = check[p].key
        /\ ops[u].pc = "done" /\ ops[u].err = "" /\ ops[u].key = Counter
        /\ ops[u].op = "increment" /\ ops[u].ret = 1
        /\ CacheGetValue(Store, check[p].key, now) = check[p].stored
        /\ CacheGetValue(Store, Counter, now) = 1
        /\ lock = 0

====
